---- MODULE Spec2Model ----
(***************************************************************************)
(* RESTer (src/RESTer.py): a request is written as text, parsed by         *)
(* HttpRequestThread, sent by its run() method on a worker thread, and the *)
(* response is decoded and inserted by ResterHttpRequestCommand.           *)
(*                                                                         *)
(* Text is modelled at character level.  A Python str or bytes value is a  *)
(* sequence of one-character strings; the tokens "CR", "LF" and "TAB"      *)
(* stand for \r, \n and \t, and "xE9", "xC3", "xA9" for the bytes 0xE9,    *)
(* 0xC3 and 0xA9.  A dict is a sequence of <<key, value>> pairs in         *)
(* insertion order.  None and the empty string are both <<>> wherever the  *)
(* code only tests truthiness (hostname, path, query, body).               *)
(***************************************************************************)
EXTENDS Integers, Sequences, FiniteSets, TLC

----------------------------------------------------------------------------
(* Characters *)

UpperAlpha == <<"A","B","C","D","E","F","G","H","I","J","K","L","M",
                "N","O","P","Q","R","S","T","U","V","W","X","Y","Z">>

LowerAlpha == <<"a","b","c","d","e","f","g","h","i","j","k","l","m",
                "n","o","p","q","r","s","t","u","v","w","x","y","z">>

Digits == {"0","1","2","3","4","5","6","7","8","9"}

UpperSet == {UpperAlpha[i] : i \in 1..26}

LowerSet == {LowerAlpha[i] : i \in 1..26}

Whitespace == {" ", "TAB", "CR", "LF"}

\* The character classes of RE_METHOD ([A-Z], UpperSet) and RE_URI
UriChars == UpperSet \cup LowerSet \cup Digits \cup
            {"-", "/", ".", "_", ":", "?", "#", "[", "]", "@", "!", "$", "&", "="}

\* str.lower() / str.upper() on one character
LowerChar(c) ==
    IF c \in UpperSet
    THEN LowerAlpha[CHOOSE i \in 1..26 : UpperAlpha[i] = c]
    ELSE c

UpperChar(c) ==
    IF c \in LowerSet
    THEN UpperAlpha[CHOOSE i \in 1..26 : LowerAlpha[i] = c]
    ELSE c

Lower(s) == [i \in 1..Len(s) |-> LowerChar(s[i])]

Upper(s) == [i \in 1..Len(s) |-> UpperChar(s[i])]

----------------------------------------------------------------------------
(* Python str operations *)

\* s[n:] with a 0-based n
From(s, n) == SubSeq(s, n + 1, Len(s))

\* pat is a prefix of s
StartsWith(s, pat) == Len(s) >= Len(pat) /\ SubSeq(s, 1, Len(pat)) = pat

\* 1-based index of the first occurrence of pat in s, 0 when there is none
Find(s, pat) ==
    LET hits == {i \in 1..Len(s) : StartsWith(From(s, i - 1), pat)}
    IN  IF hits = {} THEN 0 ELSE CHOOSE i \in hits : \A j \in hits : i <= j

\* pat in s
Contains(s, pat) == Find(s, pat) > 0

\* str.lstrip()
RECURSIVE LStrip(_)
LStrip(s) == IF s # <<>> /\ s[1] \in Whitespace THEN LStrip(Tail(s)) ELSE s

\* str.rstrip()
RECURSIVE RStrip(_)
RStrip(s) ==
    IF s # <<>> /\ s[Len(s)] \in Whitespace
    THEN RStrip(SubSeq(s, 1, Len(s) - 1))
    ELSE s

\* str.strip()
Strip(s) == RStrip(LStrip(s))

\* str.replace(pat, rep)
RECURSIVE Replace(_, _, _)
Replace(s, pat, rep) ==
    IF Len(s) < Len(pat) THEN s
    ELSE IF StartsWith(s, pat)
         THEN rep \o Replace(From(s, Len(pat)), pat, rep)
         ELSE <<s[1]>> \o Replace(Tail(s), pat, rep)

\* str.split(sep)
RECURSIVE SplitAcc(_, _, _)
SplitAcc(s, sep, cur) ==
    IF Len(s) < Len(sep) THEN <<cur \o s>>
    ELSE IF StartsWith(s, sep)
         THEN <<cur>> \o SplitAcc(From(s, Len(sep)), sep, <<>>)
         ELSE SplitAcc(Tail(s), sep, Append(cur, s[1]))

Split(s, sep) == SplitAcc(s, sep, <<>>)

\* str.split(sep, 1) for an s that contains sep: <<before, after>>
SplitFirst(s, sep) ==
    LET i == Find(s, sep)
    IN  <<SubSeq(s, 1, i - 1), From(s, i - 1 + Len(sep))>>

\* sep.join(parts)
RECURSIVE Join(_, _)
Join(parts, sep) ==
    IF parts = <<>> THEN <<>>
    ELSE IF Len(parts) = 1 THEN parts[1]
    ELSE parts[1] \o sep \o Join(Tail(parts), sep)

\* The end of the longest run of characters of class cls that starts at i
\* (i - 1 when s[i] is not in the class): a greedy "+" of a regex.
RECURSIVE RunEnd(_, _, _)
RunEnd(s, i, cls) ==
    IF i <= Len(s) /\ s[i] \in cls THEN RunEnd(s, i + 1, cls) ELSE i - 1

----------------------------------------------------------------------------
(* Python dict operations *)

DictKeys(d) == {d[i][1] : i \in 1..Len(d)}

DictHas(d, k) == k \in DictKeys(d)

DictGet(d, k) == d[CHOOSE i \in 1..Len(d) : d[i][1] = k][2]

\* d[k] = v: an existing key keeps its place
DictPut(d, k, v) ==
    IF DictHas(d, k)
    THEN [i \in 1..Len(d) |-> IF d[i][1] = k THEN <<k, v>> ELSE d[i]]
    ELSE Append(d, <<k, v>>)

\* dict(items)
RECURSIVE DictOf(_)
DictOf(items) ==
    IF items = <<>> THEN <<>>
    ELSE LET n == Len(items)
         IN  DictPut(DictOf(SubSeq(items, 1, n - 1)), items[n][1], items[n][2])

----------------------------------------------------------------------------
(* JSON values.  A value is a record [t, v]: t is its type and v its text  *)
(* (bool, num, str), <<>> (null), its pairs (dict) or its items (list).    *)

JBool(b) == [v |-> IF b THEN <<"t","r","u","e">> ELSE <<"f","a","l","s","e">>, t |-> "bool"]

JNum(digits) == [v |-> digits, t |-> "num"]

JStr(chars) == [v |-> chars, t |-> "str"]

JNull == [v |-> <<>>, t |-> "null"]

JDict(d) == [v |-> d, t |-> "dict"]

JList(items) == [v |-> items, t |-> "list"]

\* Python truthiness of a decoded JSON value
Truthy(j) ==
    CASE j.t = "bool" -> j.v = <<"t","r","u","e">>
      [] j.t = "null" -> FALSE
      [] j.t = "num"  -> \E i \in 1..Len(j.v) : j.v[i] \in Digits \ {"0"}
      [] OTHER        -> j.v # <<>>

\* A JSON integer literal: -?(0|[1-9][0-9]*)
IsJsonInt(s) ==
    LET d == IF s # <<>> /\ s[1] = "-" THEN Tail(s) ELSE s
    IN  /\ d # <<>>
        /\ \A i \in 1..Len(d) : d[i] \in Digits
        /\ (Len(d) > 1 => d[1] # "0")

\* A JSON string literal without escapes
IsJsonStr(s) ==
    /\ Len(s) >= 2
    /\ s[1] = "\"" /\ s[Len(s)] = "\""
    /\ \A i \in 2..(Len(s) - 1) : s[i] \notin {"\"", "\\", "CR", "LF", "TAB"}

\* json.loads(s) for the scalar literals; anything else raises ValueError.
\* (Arrays, objects and fractions are valid JSON too and are kept out of
\* the inputs.)
JsonLoads(s) ==
    CASE s = <<"t","r","u","e">>     -> [ok |-> TRUE, val |-> JBool(TRUE)]
      [] s = <<"f","a","l","s","e">> -> [ok |-> TRUE, val |-> JBool(FALSE)]
      [] s = <<"n","u","l","l">>     -> [ok |-> TRUE, val |-> JNull]
      [] IsJsonInt(s)                -> [ok |-> TRUE, val |-> JNum(s)]
      [] IsJsonStr(s)                -> [ok |-> TRUE, val |-> JStr(SubSeq(s, 2, Len(s) - 1))]
      [] OTHER                       -> [ok |-> FALSE, val |-> JNull]

----------------------------------------------------------------------------
(* urllib.parse.urlparse, as the request parser uses it: scheme, hostname, *)
(* path and query of a URI made of RE_URI characters.                      *)

SchemeChars == UpperSet \cup LowerSet \cup Digits \cup {"+", "-", "."}

\* _splitnetloc(url, 2): the netloc ends at the first of "/", "?", "#"
NetlocEnd(url) ==
    LET stops == {i \in 3..Len(url) : url[i] \in {"/", "?", "#"}}
    IN  IF stops = {} THEN Len(url)
        ELSE (CHOOSE i \in stops : \A j \in stops : i <= j) - 1

\* SplitResult.hostname ("" and None are both <<>>)
HostnameOf(netloc) ==
    LET parts == Split(netloc, <<"@">>)
        n     == parts[Len(parts)]
    IN  IF Contains(n, <<"[">>) /\ Contains(n, <<"]">>)
        THEN Lower(Tail(Split(n, <<"]">>)[1]))
        ELSE IF Contains(n, <<":">>) THEN Lower(Split(n, <<":">>)[1])
        ELSE Lower(n)

urlparse(uri) ==
    LET i      == Find(uri, <<":">>)
        pre    == SubSeq(uri, 1, i - 1)
        rest   == From(uri, i)
        isHttp == i > 1 /\ pre = <<"h","t","t","p">>
        isSch  == /\ i > 1
                  /\ \A k \in 1..Len(pre) : pre[k] \in SchemeChars
                  /\ (rest = <<>> \/ \E k \in 1..Len(rest) : rest[k] \notin Digits)
        hasSch == isHttp \/ isSch
        scheme == IF hasSch THEN Lower(pre) ELSE <<>>
        url1   == IF hasSch THEN rest ELSE uri
        hasNet == StartsWith(url1, <<"/","/">>)
        netloc == IF hasNet THEN SubSeq(url1, 3, NetlocEnd(url1)) ELSE <<>>
        url2   == IF hasNet THEN From(url1, NetlocEnd(url1)) ELSE url1
        url3   == IF Contains(url2, <<"#">>) THEN SplitFirst(url2, <<"#">>)[1] ELSE url2
        hasQ   == Contains(url3, <<"?">>)
    IN  [ scheme   |-> scheme,
          hostname |-> HostnameOf(netloc),
          path     |-> IF hasQ THEN SplitFirst(url3, <<"?">>)[1] ELSE url3,
          query    |-> IF hasQ THEN SplitFirst(url3, <<"?">>)[2] ELSE <<>>,
          \* "Invalid IPv6 URL": one bracket without the other in the netloc
          err      |-> Contains(netloc, <<"[">>) # Contains(netloc, <<"]">>) ]

----------------------------------------------------------------------------
(* HttpRequestThread._read_request_line_dict: three re.search patterns,    *)
(* the first that matches wins; each search takes the leftmost match and   *)
(* each "+" is greedy.  The result is the groupdict, with the names of the *)
(* groups the pattern has in "groups".                                     *)

NoMatch == [uri |-> <<>>, groups |-> {}, method |-> <<>>, protocol |-> <<>>]

\* METHOD " " URI " " PROTOCOL matched from position i
MatchFull(line, i) ==
    LET me == RunEnd(line, i, UpperSet)
        ue == RunEnd(line, me + 2, UriChars)
    IN  /\ me >= i
        /\ me + 1 <= Len(line) /\ line[me + 1] = " "
        /\ ue >= me + 2
        /\ ue + 1 <= Len(line) /\ line[ue + 1] = " "

\* METHOD " " URI matched from position i
MatchMethodUri(line, i) ==
    LET me == RunEnd(line, i, UpperSet)
        ue == RunEnd(line, me + 2, UriChars)
    IN  /\ me >= i
        /\ me + 1 <= Len(line) /\ line[me + 1] = " "
        /\ ue >= me + 2

Leftmost(S) == CHOOSE i \in S : \A j \in S : i <= j

_read_request_line_dict(line) ==
    LET full == {i \in 1..Len(line) : MatchFull(line, i)}
        mu   == {i \in 1..Len(line) : MatchMethodUri(line, i)}
        u    == {i \in 1..Len(line) : line[i] \in UriChars}
    IN  IF full # {} THEN
            LET i  == Leftmost(full)
                me == RunEnd(line, i, UpperSet)
                ue == RunEnd(line, me + 2, UriChars)
            IN  [ uri      |-> SubSeq(line, me + 2, ue),
                  groups   |-> {"method", "uri", "protocol"},
                  method   |-> SubSeq(line, i, me),
                  protocol |-> From(line, ue + 1) ]
        ELSE IF mu # {} THEN
            LET i  == Leftmost(mu)
                me == RunEnd(line, i, UpperSet)
                ue == RunEnd(line, me + 2, UriChars)
            IN  [ uri      |-> SubSeq(line, me + 2, ue),
                  groups   |-> {"method", "uri"},
                  method   |-> SubSeq(line, i, me),
                  protocol |-> <<>> ]
        ELSE IF u # {} THEN
            LET i == Leftmost(u)
            IN  [ uri      |-> SubSeq(line, i, RunEnd(line, i, UriChars)),
                  groups   |-> {"uri"},
                  method   |-> <<>>,
                  protocol |-> <<>> ]
        ELSE NoMatch

----------------------------------------------------------------------------
(* Settings.  The base layer is the dict that sublime.load_settings        *)
(* returns, from setting name to JSON value; the override layer is the     *)
(* dict built from the "@key: value" lines of one request.                 *)

S_default_headers == <<"d","e","f","a","u","l","t","_","h","e","a","d","e","r","s">>

S_body_only == <<"b","o","d","y","_","o","n","l","y">>

S_timeout == <<"t","i","m","e","o","u","t">>

S_output_request == <<"o","u","t","p","u","t","_","r","e","q","u","e","s","t">>

S_default_response_encodings == <<"d","e","f","a","u","l","t","_","r","e","s","p","o","n","s","e","_","e","n","c","o","d","i","n","g","s">>

S_response_body_commands == <<"r","e","s","p","o","n","s","e","_","b","o","d","y","_","c","o","m","m","a","n","d","s">>

\* sublime.Settings.get(setting, default)
BaseGet(settings, setting, default) ==
    IF DictHas(settings, setting) THEN DictGet(settings, setting) ELSE default

\* OverrideableSettings.get(setting, default): an empty override dict is
\* falsy, and the Settings object of the base layer is always truthy.
Get(settings, overrides, setting, default) ==
    IF overrides # <<>> /\ DictHas(overrides, setting)
    THEN DictGet(overrides, setting)
    ELSE BaseGet(settings, setting, default)

----------------------------------------------------------------------------
(* HttpRequestThread: construction and parsing *)

HTTP == <<"h","t","t","p">>

GET == <<"G","E","T">>

HostKey == <<"H","o","s","t">>

host == <<"h","o","s","t">>

LF == <<"LF">>

CR == <<"CR">>

CRLF == <<"CR", "LF">>

\* A settings object whose get hands out the object it stores
SettingsGetHandsOutStored == TRUE

\* Whether the object settings.get("default_headers") returns is the one
\* the settings hold.  sublime.Settings.get builds a new value from the
\* stored setting on every call, so it is not.
SettingsGetSharesObject == FALSE

\* The Python dict of a JSON object whose values are strings, and back
StrDict(pairs) == [i \in 1..Len(pairs) |-> <<pairs[i][1], pairs[i][2].v>>]

JStrDict(d) == JDict([i \in 1..Len(d) |-> <<d[i][1], JStr(d[i][2])>>])

\* __init__ before the call of _parse_string.  "shared" tells whether
\* self._headers is the very dict of the base settings; "exc" is the
\* exception that ended the constructor, "" when none did.
NewThread(settings, eol) ==
    LET dh     == BaseGet(settings, S_default_headers, JDict(<<>>))
        isDict == dh.t = "dict"
    IN  [ scheme       |-> HTTP,
          hostname     |-> <<>>,
          path         |-> <<>>,
          query        |-> <<>>,
          method       |-> GET,
          overrides    |-> <<>>,
          eol          |-> eol,
          header_lines |-> <<>>,
          headers      |-> IF isDict THEN StrDict(dh.v) ELSE <<>>,
          shared       |-> isDict /\ DictHas(settings, S_default_headers)
                                  /\ SettingsGetSharesObject,
          body         |-> <<>>,
          exc          |-> "" ]

\* Lines 452-457: the scheme when the URI has none
SchemeFromProtocol(scheme, rl) ==
    IF scheme = <<>> /\ "protocol" \in rl.groups
                     /\ Contains(Upper(rl.protocol), <<"H","T","T","P","S">>)
    THEN <<"h","t","t","p","s">>
    ELSE scheme

\* Lines 442-457, given the parsed URI
CopyFromUri(self, rl, uri) ==
    IF uri.err THEN [self EXCEPT !.exc = "ValueError"]
    ELSE [self EXCEPT
            !.scheme   = SchemeFromProtocol(uri.scheme, rl),
            !.hostname = uri.hostname,
            !.path     = uri.path,
            !.query    = uri.query,
            !.method   = IF "method" \in rl.groups THEN rl.method ELSE @]

\* Lines 435-440, given the groupdict: no match leaves the defaults
ReadRequestLine(self, rl) ==
    IF rl.groups = {} THEN self ELSE CopyFromUri(self, rl, urlparse(rl.uri))

_parse_request_line(self, line) == ReadRequestLine(self, _read_request_line_dict(line))

\* HeaderLineStep without the error of json.loads: an override whose value
\* is not JSON is passed over
HeaderLineStepLenient(acc, line) ==
    LET header == LStrip(line)
    IN  IF acc.exc # "" THEN acc
        ELSE IF header = <<>> THEN [acc EXCEPT !.exc = "IndexError"]
        ELSE IF header[1] = "#" THEN acc
        ELSE IF header[1] = "@" /\ Contains(header, <<":">>) THEN
            LET kv == SplitFirst(Tail(header), <<":">>)
                j  == JsonLoads(Strip(kv[2]))
            IN  IF j.ok
                THEN [acc EXCEPT !.overrides = DictPut(@, Strip(kv[1]), j.val)]
                ELSE acc
        ELSE IF Contains(header, <<":">>) THEN
            LET kv == SplitFirst(header, <<":">>)
            IN  [acc EXCEPT !.headers = DictPut(@, kv[1], Strip(kv[2]))]
        ELSE acc

\* One turn of the loop of _parse_header_lines over acc = [headers,
\* overrides, exc]
HeaderLineStep(acc, line) ==
    LET header == LStrip(line)
    IN  IF acc.exc # "" THEN acc
        ELSE IF header = <<>> THEN [acc EXCEPT !.exc = "IndexError"]
        ELSE IF header[1] = "#" THEN acc
        ELSE IF header[1] = "@" /\ Contains(header, <<":">>) THEN
            LET kv == SplitFirst(Tail(header), <<":">>)
                j  == JsonLoads(Strip(kv[2]))
            IN  IF j.ok
                THEN [acc EXCEPT !.overrides = DictPut(@, Strip(kv[1]), j.val)]
                ELSE [acc EXCEPT !.exc = "ValueError"]
        ELSE IF Contains(header, <<":">>) THEN
            LET kv == SplitFirst(header, <<":">>)
            IN  [acc EXCEPT !.headers = DictPut(@, kv[1], Strip(kv[2]))]
        ELSE acc

RECURSIVE HeaderLinesLoop(_, _)
HeaderLinesLoop(acc, lines) ==
    IF lines = <<>> THEN acc
    ELSE HeaderLinesLoop(HeaderLineStep(acc, lines[1]), Tail(lines))

\* Lines 487-489: the parsed headers are merged only when both dicts are
\* non-empty; the merge makes a new dict.
MergeHeaders(defaults, headers) ==
    IF headers # <<>> /\ defaults # <<>>
    THEN DictOf(defaults \o headers)
    ELSE defaults

\* Lines 487-491, given what the loop collected
StoreHeaderLines(self, acc) ==
    IF acc.exc # "" THEN [self EXCEPT !.exc = acc.exc]
    ELSE [self EXCEPT
            !.headers   = MergeHeaders(@, acc.headers),
            !.shared    = @ /\ ~(acc.headers # <<>> /\ self.headers # <<>>),
            !.overrides = acc.overrides]

_parse_header_lines(self) ==
    StoreHeaderLines(self, HeaderLinesLoop([overrides |-> <<>>, headers |-> <<>>, exc |-> ""],
                                           self.header_lines))

_normalize_line_endings(string, eol) ==
    LET s == Replace(Replace(string, CRLF, LF), CR, LF)
    IN  IF eol # LF THEN Replace(s, LF, eol) ELSE s

\* Lines 402-414: the Host header
HostKeysOf(headers) == {i \in 1..Len(headers) : Lower(headers[i][1]) = host}

ReconcileHost(self) ==
    LET found == HostKeysOf(self.headers)
        first == Leftmost(found)
    IN  IF found # {} THEN
            IF self.hostname = <<>>
            THEN [self EXCEPT !.hostname = self.headers[first][2]]
            ELSE self
        ELSE IF self.hostname # <<>>
        THEN [self EXCEPT !.headers = DictPut(@, HostKey, self.hostname)]
        ELSE self

\* Lines 427-428, given the path parsed again
AdoptFromPath(self, uri) ==
    IF uri.err THEN [self EXCEPT !.exc = "ValueError"]
    ELSE [self EXCEPT !.hostname = uri.hostname, !.path = uri.path]

\* Lines 425-428: the path parsed again as a network location
HostFromPath(self) ==
    IF self.hostname = <<>> /\ self.path # <<>>
    THEN AdoptFromPath(self, urlparse(<<"/", "/">> \o self.path))
    ELSE self

\* Lines 385-397: the header lines end at the first empty line and the
\* body is what follows it
SplitLines(self, lines) ==
    LET empties == {i \in 2..Len(lines) : lines[i] = <<>>}
        i       == Leftmost(empties)
    IN  IF empties # {}
        THEN [self EXCEPT
                !.header_lines = SubSeq(lines, 2, i - 1),
                !.body = Join(SubSeq(lines, i + 1, Len(lines)), self.eol)]
        ELSE [self EXCEPT !.header_lines = Tail(lines)]

\* Lines 402-428, after the header lines were parsed
AfterHeaderLines(self) ==
    IF self.exc # "" THEN self ELSE HostFromPath(ReconcileHost(self))

\* Lines 385-428, after the request line was parsed
AfterRequestLine(self, lines) ==
    IF self.exc # "" THEN self
    ELSE AfterHeaderLines(_parse_header_lines(SplitLines(self, lines)))

\* Lines 379-428, given the lines of the text
ParseLines(self, lines) == AfterRequestLine(_parse_request_line(self, lines[1]), lines)

_parse_string(self, string) ==
    ParseLines(self, Split(_normalize_line_endings(LStrip(string), self.eol), self.eol))

\* HttpRequestThread(string, eol)
HttpRequestThread(settings, string, eol) == _parse_string(NewThread(settings, eol), string)

----------------------------------------------------------------------------
(* Encoding detection: scan_string_for_encoding and                        *)
(* scan_bytes_for_encoding run the same search of RE_ENCODING, over a str  *)
(* and over bytes.  <<>> is None.                                          *)

EncodingChars == UpperSet \cup LowerSet \cup Digits \cup {"-"}

Quotes == {"'", "\""}

\* Where the name starts when RE_ENCODING matches from position i, else 0
EncodingNameAt(s, i) ==
    LET tail == From(s, i - 1)
        eq   == IF StartsWith(tail, <<"e","n","c","o","d","i","n","g","=">>) THEN i + 9
                ELSE IF StartsWith(tail, <<"c","h","a","r","s","e","t","=">>) THEN i + 8
                ELSE 0
        n    == RunEnd(s, eq, Quotes) + 1
    IN  IF eq > 0 /\ RunEnd(s, n, EncodingChars) >= n THEN n ELSE 0

scan_for_encoding(s) ==
    LET hits == {i \in 1..Len(s) : EncodingNameAt(s, i) > 0}
        n    == EncodingNameAt(s, Leftmost(hits))
    IN  IF hits = {} THEN <<>> ELSE SubSeq(s, n, RunEnd(s, n, EncodingChars))

----------------------------------------------------------------------------
(* bytes.decode(encoding) for the codecs ascii, latin-1 and utf-8.  The    *)
(* bytes of HighBytes are the ones above 0x7F; every other token is an     *)
(* ASCII byte and decodes to itself.                                       *)

HighBytes == {"x8B", "xA9", "xC3", "xE9"}

\* 0x80..0xBF
ContinuationBytes == {"x8B", "xA9"}

AsciiNames == {<<"a","s","c","i","i">>, <<"u","s","-","a","s","c","i","i">>}

Latin1Names == {<<"l","a","t","i","n","-","1">>, <<"l","a","t","i","n","1">>, <<"i","s","o","-","8","8","5","9","-","1">>}

Utf8Names == {<<"u","t","f","-","8">>, <<"u","t","f","8">>}

Latin1Char(b) ==
    CASE b = "x8B" -> "U+008B"
      [] b = "xA9" -> "U+00A9"
      [] b = "xC3" -> "U+00C3"
      [] b = "xE9" -> "U+00E9"
      [] OTHER     -> b

\* The character of a two-byte sequence 0xC3 c
Utf8Char2(c) == IF c = "x8B" THEN "U+00CB" ELSE "U+00E9"

\* The character of a three-byte sequence 0xE9 c d
Utf8Char3(c, d) ==
    CASE c = "x8B" /\ d = "x8B" -> "U+92CB"
      [] c = "x8B" /\ d = "xA9" -> "U+92E9"
      [] c = "xA9" /\ d = "x8B" -> "U+9A4B"
      [] OTHER                  -> "U+9A69"

\* The utf-8 decoding of b; ok is FALSE when b is not valid utf-8
RECURSIVE Utf8Decode(_)
Utf8Decode(b) ==
    IF b = <<>> THEN [ok |-> TRUE, text |-> <<>>]
    ELSE IF b[1] \notin HighBytes THEN
        LET r == Utf8Decode(Tail(b))
        IN  [ok |-> r.ok, text |-> <<b[1]>> \o r.text]
    ELSE IF b[1] = "xC3" /\ Len(b) >= 2 /\ b[2] \in ContinuationBytes THEN
        LET r == Utf8Decode(From(b, 2))
        IN  [ok |-> r.ok, text |-> <<Utf8Char2(b[2])>> \o r.text]
    ELSE IF /\ b[1] = "xE9" /\ Len(b) >= 3
            /\ b[2] \in ContinuationBytes /\ b[3] \in ContinuationBytes THEN
        LET r == Utf8Decode(From(b, 3))
        IN  [ok |-> r.ok, text |-> <<Utf8Char3(b[2], b[3])>> \o r.text]
    ELSE [ok |-> FALSE, text |-> <<>>]

\* bytes.decode(encoding): "ok" with the text, "UnicodeDecodeError", or
\* "LookupError" for a name that is no codec.  Empty bytes decode to the
\* empty string before the codec is looked up.
BytesDecode(b, encoding) ==
    LET name == Lower(encoding)
    IN  IF b = <<>> THEN [text |-> <<>>, status |-> "ok"]
        ELSE IF name \in AsciiNames THEN
            IF \E i \in 1..Len(b) : b[i] \in HighBytes
            THEN [text |-> <<>>, status |-> "UnicodeDecodeError"]
            ELSE [text |-> b, status |-> "ok"]
        ELSE IF name \in Latin1Names THEN
            [text |-> [i \in 1..Len(b) |-> Latin1Char(b[i])], status |-> "ok"]
        ELSE IF name \in Utf8Names THEN
            IF Utf8Decode(b).ok
            THEN [text |-> Utf8Decode(b).text, status |-> "ok"]
            ELSE [text |-> <<>>, status |-> "UnicodeDecodeError"]
        ELSE [text |-> <<>>, status |-> "LookupError"]

\* decode(bytes, encodings): the first successful decoding.  Only
\* UnicodeDecodeError moves on to the next encoding; the end of the list
\* raises DecodeError.
RECURSIVE decode(_, _)
decode(b, encodings) ==
    IF encodings = <<>> THEN [text |-> <<>>, status |-> "DecodeError"]
    ELSE LET r == BytesDecode(b, encodings[1])
         IN  IF r.status = "UnicodeDecodeError"
             THEN decode(b, Tail(encodings))
             ELSE r

UnableToDecode == <<"{","U","n","a","b","l","e"," ","t","o"," ","d","e","c","o","d","e"," ","b","o","d","y","}">>

----------------------------------------------------------------------------
(* Decompression.  A gzip member is its two magic bytes before the data,   *)
(* a raw deflate stream is the byte of a final stored block before the     *)
(* data; lengths and checksums are left out.                               *)

GzipMagic == <<"x1F", "x8B">>

StoredBlock == <<"x01">>

\* gzip.decompress(b): raises OSError when b is no gzip member
GzipDecompress(b) ==
    IF StartsWith(b, GzipMagic)
    THEN [ok |-> TRUE, data |-> From(b, 2)]
    ELSE [ok |-> FALSE, data |-> <<>>]

\* zlib.decompress(b, -15): raises zlib.error when b is no deflate stream
RawInflate(b) ==
    IF StartsWith(b, StoredBlock)
    THEN [ok |-> TRUE, data |-> From(b, 1)]
    ELSE [ok |-> FALSE, data |-> <<>>]

----------------------------------------------------------------------------
(* ResterHttpRequestCommand._complete_thread and InsertResponseCommand.    *)
(* A response is [version, status, reason, headers, body]: headers is the  *)
(* dict of its header fields and body the bytes read from the socket.      *)

K_content_type == <<"c","o","n","t","e","n","t","-","t","y","p","e">>

K_content_encoding == <<"c","o","n","t","e","n","t","-","e","n","c","o","d","i","n","g">>

K_commands == <<"c","o","m","m","a","n","d","s">>

\* HTTPResponse.getheader(name): names compare case-insensitively
getheader(response, name) ==
    LET found == {i \in 1..Len(response.headers) : Lower(response.headers[i][1]) = name}
    IN  IF found = {} THEN <<>> ELSE response.headers[Leftmost(found)][2]

\* Lines 124-131: the values the status line is formatted from
StatusLine(response) ==
    [ protocol |-> "HTTP",
      status   |-> response.status,
      version  |-> IF response.version = 11 THEN "1.1" ELSE "1.0",
      reason   |-> response.reason ]

\* Lines 133-137
HeaderBlock(response, eol) ==
    Join([i \in 1..Len(response.headers) |->
            response.headers[i][1] \o <<":", " ">> \o response.headers[i][2]], eol)

\* Lines 142-150: ok is FALSE when the decompressor raised
Unzip(response) ==
    LET ce == Lower(getheader(response, K_content_encoding))
    IN  IF Contains(ce, <<"g","z","i","p">>) THEN GzipDecompress(response.body)
        ELSE IF Contains(ce, <<"d","e","f","l","a","t","e">>) THEN RawInflate(response.body)
        ELSE [ok |-> TRUE, data |-> response.body]

\* Lines 168-172
RECURSIVE AddDefaults(_, _)
AddDefaults(encodings, defaults) ==
    IF defaults = <<>> THEN encodings
    ELSE AddDefaults(IF \E i \in 1..Len(encodings) : encodings[i] = defaults[1].v
                     THEN encodings
                     ELSE Append(encodings, defaults[1].v),
                     Tail(defaults))

\* Lines 154-172: the encodings to try, in order
Encodings(response, body_bytes, settings, overrides) ==
    LET ct       == getheader(response, K_content_type)
        fromHead == IF ct # <<>> THEN scan_for_encoding(ct) ELSE <<>>
        fromBody == scan_for_encoding(body_bytes)
        found    == (IF fromHead # <<>> THEN <<fromHead>> ELSE <<>>) \o
                    (IF fromBody # <<>> THEN <<fromBody>> ELSE <<>>)
    IN  AddDefaults(found,
                    Get(settings, overrides, S_default_response_encodings, JList(<<>>)).v)

\* Lines 180-184
NormalizeBody(body, eol) ==
    LET b == Replace(Replace(body, CRLF, LF), CR, LF)
    IN  IF eol # LF THEN Replace(b, LF, eol) ELSE b

\* BodyOnly without the test of the status
BodyOnlyAnyStatus(response, settings, overrides) ==
    Truthy(Get(settings, overrides, S_body_only, JNull))

\* Line 187: the condition of the body-only output
BodyOnly(response, settings, overrides) ==
    /\ Truthy(Get(settings, overrides, S_body_only, JNull))
    /\ 200 <= response.status /\ response.status <= 299

\* Lines 211-233: "run", "skip" or "TypeError" for one command
Gate(command, actual_content_type) ==
    LET test_types == DictGet(command.v, K_content_type)
    IN  IF ~DictHas(command.v, K_content_type) THEN "run"
        ELSE IF actual_content_type = <<>> THEN "skip"
        ELSE IF test_types.t = "str" THEN
            IF actual_content_type = Lower(test_types.v) THEN "run" ELSE "skip"
        ELSE IF test_types.t = "dict" THEN
            \* iterating a dict yields its keys, which are strings
            IF \E i \in 1..Len(test_types.v) : Lower(test_types.v[i][1]) = actual_content_type
            THEN "run" ELSE "skip"
        ELSE IF test_types.t # "list" THEN "TypeError"
        ELSE IF \A i \in 1..Len(test_types.v) : test_types.v[i].t = "str" THEN
            IF \E i \in 1..Len(test_types.v) : Lower(test_types.v[i].v) = actual_content_type
            THEN "run" ELSE "skip"
        ELSE "TypeError"

\* Lines 209-237 over acc = [ran, exc]: ran is the commands run on the view
RECURSIVE CommandsLoop(_, _, _)
CommandsLoop(acc, commands, actual_content_type) ==
    IF commands = <<>> \/ acc.exc # "" THEN acc
    ELSE LET g     == Gate(commands[1], actual_content_type)
             names == DictGet(commands[1].v, K_commands).v
             next  == CASE g = "TypeError" -> [acc EXCEPT !.exc = "TypeError"]
                        [] g = "run" -> [acc EXCEPT !.ran = @ \o [i \in 1..Len(names) |-> names[i].v]]
                        [] OTHER -> acc
         IN  CommandsLoop(next, Tail(commands), actual_content_type)

NoOutput ==
    [ headers |-> <<>>, body |-> <<>>, exc |-> "", ran |-> <<>>, args |-> {},
      status_line |-> <<>>, inserted |-> <<>>, selected |-> FALSE, complete |-> FALSE ]

\* InsertResponseCommand.run: the parts written to the view, in order, and
\* whether the body ends up selected (start and end both non-zero)
InsertResponse(out) ==
    LET st == "status_line" \in out.args
        hd == "headers" \in out.args /\ out.headers # <<>>
        bd == out.body # <<>>
    IN  [out EXCEPT
           !.inserted = (IF st THEN <<"status_line">> ELSE <<>>) \o
                        (IF hd THEN <<"headers">> ELSE <<>>) \o
                        (IF bd THEN <<"body">> ELSE <<>>),
           !.selected = bd /\ (st \/ hd)]

\* Lines 186-200: the arguments of insert_response
Show(response, bodyOnly, body, eol) ==
    InsertResponse(
        [NoOutput EXCEPT
           !.args = IF bodyOnly THEN {"body", "eol"}
                    ELSE {"status_line", "headers", "body", "eol"},
           !.status_line = IF bodyOnly THEN <<>> ELSE <<StatusLine(response)>>,
           !.headers = IF bodyOnly THEN <<>> ELSE HeaderBlock(response, eol),
           !.body = body])

\* Lines 239-241, given what the loop over the commands did
Finish(shown, cmds) ==
    [shown EXCEPT !.ran = cmds.ran, !.exc = cmds.exc, !.complete = cmds.exc = ""]

\* Lines 175-241, given the result of decode: a LookupError leaves the
\* method, a DecodeError gives the placeholder
AfterDecode(response, settings, overrides, eol, dec) ==
    IF dec.status = "LookupError" THEN [NoOutput EXCEPT !.exc = "LookupError"]
    ELSE Finish(Show(response, BodyOnly(response, settings, overrides),
                     NormalizeBody(IF dec.status = "DecodeError" THEN UnableToDecode
                                   ELSE dec.text, eol),
                     eol),
                CommandsLoop([exc |-> "", ran |-> <<>>],
                             Get(settings, overrides, S_response_body_commands, JList(<<>>)).v,
                             Lower(getheader(response, K_content_type))))

\* Lines 152-241, given the decompressed body
AfterUnzip(response, settings, overrides, eol, unz) ==
    IF ~unz.ok THEN [NoOutput EXCEPT !.exc = "DecompressError"]
    ELSE AfterDecode(response, settings, overrides, eol,
                     decode(unz.data, Encodings(response, unz.data, settings, overrides)))

\* _complete_thread(response, settings): what the new view shows and the
\* exception that ended the method, "" when it ran to its end
_complete_thread(response, base, overrides, eol) ==
    AfterUnzip(response, base, overrides, eol, Unzip(response))

----------------------------------------------------------------------------
(* The state *)

VARIABLES
    settings,   \* the base settings that sublime.load_settings returns
    threads,    \* per command: its HttpRequestThread and where the worker is
    conns,      \* per command: what the worker did with its HTTPConnection
    views,      \* per command: the polling handler, the status area, the output
    src         \* per command: the parts the request text was put together from

vars == <<settings, threads, conns, views, src>>

\* The number of commands that may run at the same time
NumThreads == 2

Threads == 1..NumThreads

NoThread == NewThread(<<>>, LF)

NoResponse == [headers |-> <<>>, body |-> <<>>, status |-> 0, version |-> 0, reason |-> <<>>]

NoResult == [kind |-> "unset", msg |-> "", resp |-> NoResponse]

NoSrc == [body |-> <<>>, lead |-> <<>>, reqline |-> <<>>, hdrs |-> <<>>, hasBody |-> FALSE, nl |-> LF]

\* The text of a request made of a request line, header lines and a body
TextOf(parts) ==
    parts.lead \o
    Join(<<parts.reqline>> \o parts.hdrs \o
         (IF parts.hasBody THEN <<<<>>, parts.body>> ELSE <<>>), parts.nl)

MissingHostname == "Unable to make request: Please provide a hostname."

InvalidHostname == "Unable to make request. Make sure the hostname is valid."

TimedOut == "Request timed out."

UnableToMakeRequest == "Unable to make request."

RequestComplete == "RESTer Request Complete"

Alive(t) == threads[t].pc \in {"started", "connecting", "awaiting"}

----------------------------------------------------------------------------
(* The operations *)

\* What the base settings hold after a thread was constructed: a headers
\* dict that is the settings' own object carries the thread's writes.
SettingsAfter(base, self) ==
    IF self.shared THEN DictPut(base, S_default_headers, JStrDict(self.headers)) ELSE base

\* Lines 85-87, given the constructed thread: an exception of the
\* constructor leaves run before the thread is started
Started(t, parts, self) ==
    /\ threads' = [threads EXCEPT ![t] =
          [@ EXCEPT !.pc = IF self.exc = "" THEN "started" ELSE "raised",
                    !.self = self]]
    /\ settings' = SettingsAfter(settings, self)
    /\ views' = [views EXCEPT ![t] =
          [@ EXCEPT !.handler = IF self.exc = "" THEN "scheduled" ELSE "raised",
                    !.raised = self.exc]]
    /\ src' = [src EXCEPT ![t] = parts]
    /\ UNCHANGED conns

\* ResterHttpRequestCommand.run: construct the thread from the text, start
\* it and call _handle_thread
Run(t, parts, eol) ==
    /\ threads[t].pc = "idle"
    /\ Started(t, parts, HttpRequestThread(settings, TextOf(parts), eol))

\* WorkerStart without the test of the hostname
WorkerStartUnchecked(t) ==
    /\ threads[t].pc = "started"
    /\ threads' = [threads EXCEPT ![t].pc = "connecting"]
    /\ conns' = [conns EXCEPT ![t].created = TRUE]
    /\ UNCHANGED <<settings, views, src>>

\* HttpRequestThread.run, lines 298-305: no hostname ends the worker with
\* a message; otherwise the connection object is made (no I/O yet).
WorkerStart(t) ==
    /\ threads[t].pc = "started"
    /\ IF threads[t].self.hostname = <<>>
       THEN /\ threads' = [threads EXCEPT ![t] =
                 [@ EXCEPT !.pc = "finished",
                           !.result = [NoResult EXCEPT !.kind = "str", !.msg = MissingHostname]]]
            /\ UNCHANGED conns
       ELSE /\ threads' = [threads EXCEPT ![t].pc = "connecting"]
            /\ conns' = [conns EXCEPT ![t].created = TRUE]
    /\ UNCHANGED <<settings, views, src>>

RequestOutcomes == {"ok", "gaierror", "timeout", "refused"}

\* Lines 307-320: conn.request connects and sends.  Only socket.gaierror
\* is caught; any other exception leaves run().
Request(t, outcome) ==
    /\ threads[t].pc = "connecting"
    /\ conns' = [conns EXCEPT ![t] =
          [@ EXCEPT !.connects = @ + 1,
                    !.sent = IF outcome = "ok" THEN @ + 1 ELSE @,
                    !.closed = outcome = "gaierror"]]
    /\ threads' = [threads EXCEPT ![t] =
          CASE outcome = "ok" -> [@ EXCEPT !.pc = "awaiting"]
            [] outcome = "gaierror" ->
                 [@ EXCEPT !.pc = "finished", !.fault = "gaierror",
                           !.result = [NoResult EXCEPT !.kind = "str", !.msg = InvalidHostname]]
            [] outcome = "timeout" ->
                 [@ EXCEPT !.pc = "finished", !.fault = "connect timeout",
                           !.died = "socket.timeout"]
            [] OTHER ->
                 [@ EXCEPT !.pc = "finished", !.fault = "refused",
                           !.died = "ConnectionRefusedError"]]
    /\ UNCHANGED <<settings, views, src>>

\* Lines 322-331: the response arrives
GetResponse(t, response) ==
    /\ threads[t].pc = "awaiting"
    /\ threads' = [threads EXCEPT ![t] =
          [@ EXCEPT !.pc = "finished",
                    !.result = [NoResult EXCEPT !.kind = "response", !.resp = response]]]
    /\ conns' = [conns EXCEPT ![t].closed = TRUE]
    /\ UNCHANGED <<settings, views, src>>

ResponseFaults == {"timeout", "reset"}

\* Lines 322-328: conn.getresponse raises.  Only socket.timeout is caught.
GetResponseFails(t, fault) ==
    /\ threads[t].pc = "awaiting"
    /\ threads' = [threads EXCEPT ![t] =
          IF fault = "timeout"
          THEN [@ EXCEPT !.pc = "finished", !.fault = "read timeout",
                         !.result = [NoResult EXCEPT !.kind = "str", !.msg = TimedOut]]
          ELSE [@ EXCEPT !.pc = "finished", !.fault = "reset",
                         !.died = "ConnectionResetError"]]
    /\ conns' = [conns EXCEPT ![t].closed = fault = "timeout"]
    /\ UNCHANGED <<settings, views, src>>

\* Lines 105-107, given what _complete_thread did
Completed(view, out) ==
    [view EXCEPT !.out = out,
                 !.handler = IF out.exc = "" THEN "ended" ELSE "raised",
                 !.raised = out.exc,
                 !.status = IF out.exc = "" THEN RequestComplete ELSE @]

\* ResterHttpRequestCommand._handle_thread, with _complete_thread when the
\* result is a response.  While the worker is alive the handler shows the
\* activity indicator and schedules itself again (the indicator's position
\* is not part of the state).  Reading thread.result of a worker that an
\* exception ended raises AttributeError.
HandleThread(t) ==
    /\ views[t].handler = "scheduled"
    /\ views' = [views EXCEPT ![t] =
          IF Alive(t) THEN [@ EXCEPT !.status = "busy"]
          ELSE IF threads[t].result.kind = "response" THEN
              Completed(@, _complete_thread(threads[t].result.resp, settings,
                                            threads[t].self.overrides, threads[t].self.eol))
          ELSE IF threads[t].result.kind = "str" THEN
              [@ EXCEPT !.handler = "ended", !.status = threads[t].result.msg]
          ELSE [@ EXCEPT !.handler = "raised", !.raised = "AttributeError"]]
    /\ UNCHANGED <<settings, threads, conns, src>>

----------------------------------------------------------------------------
(* Inputs *)

RequestLines ==
    { <<"G","E","T"," ","h","t","t","p",":","/","/","h","/","p">>,
      <<"G","E","T"," ","/","p"," ","H","T","T","P","/","1",".","1">>,
      <<"G","E","T"," ","/","p"," ","h","t","t","p","s">>,
      <<"h","/","p">>,
      <<"%","%">>,
      <<"P","O","S","T"," ","h","t","t","p","s",":","/","/","H","/","p","?","q","=","1"," ","H","T","T","P","/","1",".","1">>,
      <<"G","E","T"," ","/","p">> }

HeaderLines ==
    { <<"A","c","c","e","p","t",":"," ","a">>,
      <<"H","o","s","t",":"," ","h","2">>,
      <<"h","o","s","t",":","h","3">>,
      <<" "," ">>,
      <<"#"," ","c">>,
      <<"@","b","o","d","y","_","o","n","l","y",":"," ","t","r","u","e">>,
      <<"@","b","o","d","y","_","o","n","l","y",":"," ","f","a","l","s","e">>,
      <<"@","t","i","m","e","o","u","t",":"," ","x">>,
      <<" ","X","-","A",":"," "," ","b"," ">>,
      <<"j","u","n","k">>,
      <<"@","t","i","m","e","o","u","t",":"," ","5">> }

\* The longest run of header lines of a request text
MaxHeaderLines == 2

SeqsUpTo(S, n) == UNION {[1..k -> S] : k \in 0..n}

\* How a text is laid out: its leading whitespace, the line ending it is
\* written with and the line ending of the view
Layouts ==
    { [eol |-> LF, lead |-> <<>>, nl |-> LF],
      [eol |-> LF, lead |-> <<>>, nl |-> CRLF],
      [eol |-> CRLF, lead |-> <<" ", "LF">>, nl |-> LF],
      [eol |-> CR, lead |-> <<>>, nl |-> CR] }

PlainLayout == [eol |-> LF, lead |-> <<>>, nl |-> LF]

Parts(reqline, hdrs, hasBody, layout) ==
    [ body |-> IF hasBody THEN <<"b">> ELSE <<>>, lead |-> layout.lead, reqline |-> reqline,
      hdrs |-> hdrs, hasBody |-> hasBody, nl |-> layout.nl ]

BaseEmpty ==
    <<>>

BasePlain ==
    <<<<<<"d","e","f","a","u","l","t","_","h","e","a","d","e","r","s">>, JDict(<<<<<<"A","c","c","e","p","t">>, JStr(<<"x">>)>>>>)>>,
       <<<<"b","o","d","y","_","o","n","l","y">>, JBool(TRUE)>>,
       <<<<"d","e","f","a","u","l","t","_","r","e","s","p","o","n","s","e","_","e","n","c","o","d","i","n","g","s">>, JList(<<JStr(<<"u","t","f","-","8">>), JStr(<<"l","a","t","i","n","-","1">>)>>)>>,
       <<<<"r","e","s","p","o","n","s","e","_","b","o","d","y","_","c","o","m","m","a","n","d","s">>, JList(<<JDict(<<<<<<"c","o","m","m","a","n","d","s">>, JList(<<JStr(<<"c","1">>)>>)>>>>)>>)>>>>

BaseBadList ==
    <<<<<<"d","e","f","a","u","l","t","_","h","e","a","d","e","r","s">>, JDict(<<<<<<"A","c","c","e","p","t">>, JStr(<<"x">>)>>>>)>>,
       <<<<"b","o","d","y","_","o","n","l","y">>, JBool(FALSE)>>,
       <<<<"d","e","f","a","u","l","t","_","r","e","s","p","o","n","s","e","_","e","n","c","o","d","i","n","g","s">>, JList(<<JStr(<<"a","s","c","i","i">>)>>)>>,
       <<<<"r","e","s","p","o","n","s","e","_","b","o","d","y","_","c","o","m","m","a","n","d","s">>, JList(<<JDict(<<<<<<"c","o","n","t","e","n","t","-","t","y","p","e">>, JStr(<<"t","e","x","t","/","h","t","m","l">>)>>,
       <<<<"c","o","m","m","a","n","d","s">>, JList(<<JStr(<<"c","1">>)>>)>>>>), JDict(<<<<<<"c","o","n","t","e","n","t","-","t","y","p","e">>, JList(<<JStr(<<"t","e","x","t","/","h","t","m","l">>), JNum(<<"5">>)>>)>>,
       <<<<"c","o","m","m","a","n","d","s">>, JList(<<JStr(<<"c","2">>)>>)>>>>)>>)>>>>

BaseBadScalar ==
    <<<<<<"d","e","f","a","u","l","t","_","h","e","a","d","e","r","s">>, JDict(<<<<<<"h","o","s","t">>, JStr(<<"d">>)>>>>)>>,
       <<<<"b","o","d","y","_","o","n","l","y">>, JBool(TRUE)>>,
       <<<<"d","e","f","a","u","l","t","_","r","e","s","p","o","n","s","e","_","e","n","c","o","d","i","n","g","s">>, JList(<<JStr(<<"b","o","g","u","s">>), JStr(<<"u","t","f","-","8">>)>>)>>,
       <<<<"r","e","s","p","o","n","s","e","_","b","o","d","y","_","c","o","m","m","a","n","d","s">>, JList(<<JDict(<<<<<<"c","o","n","t","e","n","t","-","t","y","p","e">>, JNum(<<"5">>)>>,
       <<<<"c","o","m","m","a","n","d","s">>, JList(<<JStr(<<"c","1">>)>>)>>>>)>>)>>>>

BaseNoDict ==
    <<<<<<"d","e","f","a","u","l","t","_","h","e","a","d","e","r","s">>, JList(<<JStr(<<"x">>)>>)>>,
       <<<<"d","e","f","a","u","l","t","_","r","e","s","p","o","n","s","e","_","e","n","c","o","d","i","n","g","s">>, JList(<<JStr(<<"a","s","c","i","i">>)>>)>>,
       <<<<"r","e","s","p","o","n","s","e","_","b","o","d","y","_","c","o","m","m","a","n","d","s">>, JList(<<JDict(<<<<<<"c","o","n","t","e","n","t","-","t","y","p","e">>, JList(<<JStr(<<"T","E","X","T","/","H","T","M","L">>)>>)>>,
       <<<<"c","o","m","m","a","n","d","s">>, JList(<<JStr(<<"c","1">>)>>)>>>>)>>)>>>>

BaseNoHeaders ==
    <<<<<<"d","e","f","a","u","l","t","_","h","e","a","d","e","r","s">>, JDict(<<>>)>>,
       <<<<"b","o","d","y","_","o","n","l","y">>, JBool(TRUE)>>,
       <<<<"d","e","f","a","u","l","t","_","r","e","s","p","o","n","s","e","_","e","n","c","o","d","i","n","g","s">>, JList(<<JStr(<<"l","a","t","i","n","-","1">>)>>)>>>>

Bases == {BaseEmpty, BasePlain, BaseBadList, BaseBadScalar, BaseNoDict, BaseNoHeaders}

Responses ==
    { [headers |-> <<<<<<"C","o","n","t","e","n","t","-","T","y","p","e">>, <<"t","e","x","t","/","h","t","m","l">>>>>>, body |-> <<"h","i">>, status |-> 199, version |-> 11, reason |-> <<"O","K">>],
      [headers |-> <<<<<<"C","o","n","t","e","n","t","-","T","y","p","e">>, <<"t","e","x","t","/","h","t","m","l">>>>>>, body |-> <<"h","i">>, status |-> 200, version |-> 11, reason |-> <<"O","K">>],
      [headers |-> <<<<<<"C","o","n","t","e","n","t","-","T","y","p","e">>, <<"t","e","x","t","/","h","t","m","l">>>>>>, body |-> <<"h","i">>, status |-> 299, version |-> 11, reason |-> <<"O","K">>],
      [headers |-> <<<<<<"C","o","n","t","e","n","t","-","T","y","p","e">>, <<"t","e","x","t","/","h","t","m","l">>>>>>, body |-> <<"h","i">>, status |-> 300, version |-> 11, reason |-> <<"O","K">>],
      [headers |-> <<<<<<"C","o","n","t","e","n","t","-","T","y","p","e">>, <<"t","e","x","t","/","h","t","m","l">>>>>>, body |-> <<"h","i">>, status |-> 304, version |-> 11, reason |-> <<"O","K">>],
      [headers |-> <<>>, body |-> <<"xE9">>, status |-> 200, version |-> 11, reason |-> <<"O","K">>],
      [headers |-> <<<<<<"C","o","n","t","e","n","t","-","T","y","p","e">>, <<"t","e","x","t","/","h","t","m","l",";"," ","c","h","a","r","s","e","t","=","u","t","f","-","8">>>>>>, body |-> <<"xC3","xA9">>, status |-> 200, version |-> 11, reason |-> <<"O","K">>],
      [headers |-> <<<<<<"C","o","n","t","e","n","t","-","T","y","p","e">>, <<"t","e","x","t","/","h","t","m","l",";"," ","c","h","a","r","s","e","t","=","b","o","g","u","s">>>>>>, body |-> <<"h","i">>, status |-> 200, version |-> 11, reason |-> <<"O","K">>],
      [headers |-> <<<<<<"c","o","n","t","e","n","t","-","t","y","p","e">>, <<"t","e","x","t","/","h","t","m","l",";"," ","c","h","a","r","s","e","t","=","\"","l","a","t","i","n","-","1","\"">>>>>>, body |-> <<"xE9">>, status |-> 200, version |-> 11, reason |-> <<"O","K">>],
      [headers |-> <<>>, body |-> <<"c","h","a","r","s","e","t","=","a","s","c","i","i"," ","xE9">>, status |-> 200, version |-> 11, reason |-> <<"O","K">>],
      [headers |-> <<<<<<"C","o","n","t","e","n","t","-","E","n","c","o","d","i","n","g">>, <<"G","Z","i","p">>>>>>, body |-> <<"x1F","x8B","h","i">>, status |-> 200, version |-> 11, reason |-> <<"O","K">>],
      [headers |-> <<<<<<"C","o","n","t","e","n","t","-","E","n","c","o","d","i","n","g">>, <<"g","z","i","p">>>>>>, body |-> <<"h","i">>, status |-> 200, version |-> 11, reason |-> <<"O","K">>],
      [headers |-> <<<<<<"C","o","n","t","e","n","t","-","E","n","c","o","d","i","n","g">>, <<"d","e","f","l","a","t","e">>>>, <<<<"C","o","n","t","e","n","t","-","T","y","p","e">>, <<"T","e","x","t","/","H","t","m","l">>>>>>, body |-> <<"x01","h","i">>, status |-> 200, version |-> 11, reason |-> <<"O","K">>],
      [headers |-> <<<<<<"C","o","n","t","e","n","t","-","T","y","p","e">>, <<"t","e","x","t","/","h","t","m","l">>>>>>, body |-> <<"a","CR","LF","b">>, status |-> 201, version |-> 11, reason |-> <<"O","K">>],
      [headers |-> <<>>, body |-> <<>>, status |-> 404, version |-> 10, reason |-> <<"N","o","t"," ","F","o","u","n","d">>] }

----------------------------------------------------------------------------
(* Specifications *)

InitThreads == [t \in Threads |->
    [self |-> NoThread, pc |-> "idle", result |-> NoResult, fault |-> "", died |-> ""]]

InitConns == [t \in Threads |->
    [created |-> FALSE, connects |-> 0, sent |-> 0, closed |-> FALSE]]

InitViews == [t \in Threads |->
    [status |-> "", out |-> NoOutput, handler |-> "none", raised |-> ""]]

Init ==
    /\ settings \in Bases
    /\ threads = InitThreads
    /\ conns = InitConns
    /\ views = InitViews
    /\ src = [t \in Threads |-> NoSrc]

\* One command from the text to the output
Next ==
    \/ \E reqline \in RequestLines, hdrs \in SeqsUpTo(HeaderLines, 1), hasBody \in BOOLEAN :
          Run(1, Parts(reqline, hdrs, hasBody, PlainLayout), LF)
    \/ WorkerStart(1)
    \/ \E outcome \in RequestOutcomes : Request(1, outcome)
    \/ \E response \in Responses : GetResponse(1, response)
    \/ \E fault \in ResponseFaults : GetResponseFails(1, fault)
    \/ HandleThread(1)

Spec == Init /\ [][Next]_vars

\* The parser alone, over every text of up to MaxHeaderLines header lines
NextParse ==
    \E reqline \in RequestLines, hdrs \in SeqsUpTo(HeaderLines, MaxHeaderLines),
       hasBody \in BOOLEAN, layout \in Layouts :
          Run(1, Parts(reqline, hdrs, hasBody, layout), layout.eol)

SpecParse == Init /\ [][NextParse]_vars

\* Several commands at once over the same base settings
ConcRequestLines == {<<"G","E","T"," ","h","t","t","p",":","/","/","h","/","p">>, <<"G","E","T"," ","/","p">>}

ConcHeaderLines == {<<"A","c","c","e","p","t",":"," ","a">>, <<"H","o","s","t",":"," ","h","2">>}

ConcResponse == [headers |-> <<<<<<"C","o","n","t","e","n","t","-","T","y","p","e">>, <<"t","e","x","t","/","h","t","m","l">>>>>>, body |-> <<"h","i">>, status |-> 200, version |-> 11, reason |-> <<"O","K">>]

InitConc ==
    /\ settings \in {BasePlain, BaseNoHeaders}
    /\ threads = InitThreads
    /\ conns = InitConns
    /\ views = InitViews
    /\ src = [t \in Threads |-> NoSrc]

NextConc ==
    \E t \in Threads :
        \/ \E reqline \in ConcRequestLines, hdrs \in SeqsUpTo(ConcHeaderLines, 1) :
              Run(t, Parts(reqline, hdrs, FALSE, PlainLayout), LF)
        \/ WorkerStart(t)
        \/ \E outcome \in {"ok", "gaierror"} : Request(t, outcome)
        \/ GetResponse(t, ConcResponse)
        \/ GetResponseFails(t, "timeout")
        \/ HandleThread(t)

SpecConc == InitConc /\ [][NextConc]_vars

----------------------------------------------------------------------------
(* What a request text says, read off the parts it was put together from   *)

\* A "Name: value" line: not empty, no comment, no override, with a colon
IsHeaderLine(line) ==
    /\ LStrip(line) # <<>>
    /\ LStrip(line)[1] \notin {"#", "@"}
    /\ Contains(line, <<":">>)

HeaderName(line) == SplitFirst(LStrip(line), <<":">>)[1]

HeaderValue(line) == Strip(SplitFirst(LStrip(line), <<":">>)[2])

\* The header lines that name the host
HostLines(hdrs) == {i \in 1..Len(hdrs) : IsHeaderLine(hdrs[i]) /\ Lower(HeaderName(hdrs[i])) = host}

\* An "@key: value" line whose value is not JSON
IsMalformedOverride(line) ==
    /\ LStrip(line) # <<>>
    /\ LStrip(line)[1] = "@"
    /\ Contains(line, <<":">>)
    /\ ~JsonLoads(Strip(SplitFirst(LStrip(line), <<":">>)[2])).ok

\* The default_headers setting as a dict, empty when it is none
DefaultsOf(base) ==
    IF DictHas(base, S_default_headers) /\ DictGet(base, S_default_headers).t = "dict"
    THEN StrDict(DictGet(base, S_default_headers).v)
    ELSE <<>>

\* The hostname the URI of the request line supplies
UriHostname(reqline) ==
    IF _read_request_line_dict(reqline).groups = {} THEN <<>>
    ELSE urlparse(_read_request_line_dict(reqline).uri).hostname

\* The thread of command t was constructed without an exception
Parsed(t) == threads[t].pc \notin {"idle", "raised"}

----------------------------------------------------------------------------
(* C1 *)

\* C1: after parsing, the headers are the default headers with the parsed
\* header lines merged on top: the last line of every header name is in
\* the headers under its exact name with its trimmed value, and a default
\* header that no line names keeps its value; this for every value of
\* default_headers, an empty or non-dict one included.
C1_ParsedHeadersOverDefaults ==
    Parsed(1) =>
        LET hdrs    == src[1].hdrs
            headers == threads[1].self.headers
            names   == {HeaderName(hdrs[i]) : i \in {j \in 1..Len(hdrs) : IsHeaderLine(hdrs[j])}}
        IN  /\ \A i \in 1..Len(hdrs) :
                  (/\ IsHeaderLine(hdrs[i])
                   /\ \A j \in (i + 1)..Len(hdrs) :
                         IsHeaderLine(hdrs[j]) => HeaderName(hdrs[j]) # HeaderName(hdrs[i]))
                  => /\ DictHas(headers, HeaderName(hdrs[i]))
                     /\ DictGet(headers, HeaderName(hdrs[i])) = HeaderValue(hdrs[i])
            /\ \A k \in DictKeys(DefaultsOf(settings)) \ names :
                  /\ DictHas(headers, k)
                  /\ DictGet(headers, k) = DictGet(DefaultsOf(settings), k)

----------------------------------------------------------------------------
(* C2 *)

\* C2: when the URI supplied no hostname and a header (of the text or of
\* the defaults) names the host in any case, the hostname is the value of
\* such a header; when no header names the host and the URI supplied a
\* hostname, the headers hold "Host" with that hostname.
C2_HostReconciled ==
    Parsed(1) =>
        LET hdrs     == src[1].hdrs
            self     == threads[1].self
            defaults == DefaultsOf(settings)
            named    == {HeaderValue(hdrs[i]) : i \in HostLines(hdrs)} \cup
                        {DictGet(defaults, k) : k \in {d \in DictKeys(defaults) : Lower(d) = host}}
        IN  /\ (UriHostname(src[1].reqline) = <<>> /\ named # {})
                  => self.hostname \in named
            /\ (UriHostname(src[1].reqline) # <<>> /\ named = {})
                  => /\ DictHas(self.headers, HostKey)
                     /\ DictGet(self.headers, HostKey) = UriHostname(src[1].reqline)

----------------------------------------------------------------------------
(* C3 *)

\* C3: a worker that the transport ended (a timeout while connecting or
\* while reading, a failed name resolution) has set its result: the
\* timeout message after a timeout, the invalid-hostname message after a
\* failed resolution.
C3_TransportFaultSetsResult ==
    LET th == threads[1]
    IN  th.pc = "finished" =>
          /\ th.fault \in {"connect timeout", "read timeout"} =>
                th.result.kind = "str" /\ th.result.msg = TimedOut
          /\ th.fault = "gaierror" =>
                th.result.kind = "str" /\ th.result.msg = InvalidHostname
          /\ th.fault \in {"", "connect timeout", "read timeout", "gaierror"} =>
                th.result.kind # "unset"

----------------------------------------------------------------------------
(* C4 *)

\* A content-type gate that is neither a string nor a collection of strings
IsMalformedGate(command) ==
    /\ DictHas(command.v, K_content_type)
    /\ LET g == DictGet(command.v, K_content_type)
       IN  /\ g.t \notin {"str", "dict"}
           /\ (g.t = "list" => \E i \in 1..Len(g.v) : g.v[i].t # "str")

HasMalformedGate(base) ==
    /\ DictHas(base, S_response_body_commands)
    /\ \E i \in 1..Len(DictGet(base, S_response_body_commands).v) :
          IsMalformedGate(DictGet(base, S_response_body_commands).v[i])

HasMalformedOverride(parts) ==
    \E i \in 1..Len(parts.hdrs) : IsMalformedOverride(parts.hdrs[i])

NoNetworkIO(t) == ~conns[t].created /\ conns[t].connects = 0 /\ conns[t].sent = 0

\* C4 as stated: a request whose configuration is malformed (an override
\* line with a malformed JSON value, or a malformed content-type gate in
\* response_body_commands) opens no connection and sends nothing.
C4_MalformedConfigNoIO ==
    (threads[1].pc # "idle" /\ (HasMalformedOverride(src[1]) \/ HasMalformedGate(settings)))
        => NoNetworkIO(1)

\* C4 as amended: an override line with a malformed JSON value ends the
\* command before the worker is started, so no connection is made and
\* nothing is sent; the TypeError of a malformed content-type gate is
\* raised only while the response is worked on, after the request was sent
\* and the response was received and inserted.
C4_MalformedOverrideNoIO ==
    /\ (threads[1].pc # "idle" /\ HasMalformedOverride(src[1]))
          => threads[1].pc = "raised" /\ NoNetworkIO(1)
    /\ views[1].raised = "TypeError"
          => /\ HasMalformedGate(settings)
             /\ conns[1].sent = 1
             /\ threads[1].result.kind = "response"
             /\ views[1].out.args # {}

\* An override line with a malformed JSON value was read and the
\* constructor raised the error of json.loads
C4_Witness ==
    /\ threads[1].pc = "raised"
    /\ views[1].raised = "ValueError"
    /\ HasMalformedOverride(src[1])

----------------------------------------------------------------------------
(* C5 *)

\* The text of the first encoding that decodes b, trying them in order and
\* passing over every one that fails; the placeholder when none does
RECURSIVE FirstDecodable(_, _)
FirstDecodable(b, encodings) ==
    IF encodings = <<>> THEN UnableToDecode
    ELSE IF BytesDecode(b, encodings[1]).status = "ok"
         THEN BytesDecode(b, encodings[1]).text
         ELSE FirstDecodable(b, Tail(encodings))

\* C5: decoding the body never fails: a response whose body was
\* decompressed is shown, and its body is the text of the first candidate
\* encoding that decodes it, or the placeholder when none does.
C5_DecodingNeverFails ==
    LET th  == threads[1]
        unz == Unzip(th.result.resp)
    IN  (/\ views[1].handler \in {"ended", "raised"}
         /\ th.result.kind = "response"
         /\ views[1].raised # "DecompressError")
        => /\ views[1].raised # "LookupError"
           /\ views[1].out.args # {}
           /\ views[1].out.body =
                 NormalizeBody(FirstDecodable(unz.data,
                                   Encodings(th.result.resp, unz.data, settings, th.self.overrides)),
                               th.self.eol)

----------------------------------------------------------------------------
(* C6 *)

----------------------------------------------------------------------------
(* C7 *)

\* C7: a worker whose thread has no hostname never makes a connection and
\* sends nothing, and ends with the missing-hostname message as its result.
C7_NoHostnameNoConnection ==
    (Parsed(1) /\ threads[1].self.hostname = <<>>) =>
        /\ NoNetworkIO(1)
        /\ threads[1].pc \in {"started", "finished"}
        /\ threads[1].pc = "finished" =>
              /\ threads[1].result.kind = "str"
              /\ threads[1].result.msg = MissingHostname
              /\ threads[1].died = ""

\* The worker of a thread without a hostname has ended and the handler has
\* shown its message
C7_Witness ==
    /\ threads[1].pc = "finished"
    /\ threads[1].self.hostname = <<>>
    /\ views[1].handler = "ended"
    /\ views[1].status = MissingHostname

----------------------------------------------------------------------------
(* C8 *)

\* C8: a header line that is empty once its leading whitespace is stripped
\* is skipped: the constructor does not raise IndexError on it, and the
\* text is parsed as it is without the line.
C8_BlankHeaderLineSkipped ==
    (threads[1].pc # "idle"
     /\ \E i \in 1..Len(src[1].hdrs) : LStrip(src[1].hdrs[i]) = <<>>)
        => views[1].raised # "IndexError"

----------------------------------------------------------------------------
(* C9 *)

\* The body_only setting in effect: the override when the request has one,
\* else the base setting, else not set
EffectiveBodyOnly(t) ==
    IF DictHas(threads[t].self.overrides, S_body_only)
    THEN Truthy(DictGet(threads[t].self.overrides, S_body_only))
    ELSE DictHas(settings, S_body_only) /\ Truthy(DictGet(settings, S_body_only))

StatusIsSuccess(t) ==
    threads[t].result.resp.status \in 200..299

\* C9: the output is the body alone exactly when the body_only setting in
\* effect is true and the status is within 200..299; every other output
\* has the status line, the headers and the body.
C9_BodyOnlyOnSuccess ==
    views[1].out.args # {} =>
        IF EffectiveBodyOnly(1) /\ StatusIsSuccess(1)
        THEN /\ views[1].out.args = {"body", "eol"}
             /\ "status_line" \notin {views[1].out.inserted[i] : i \in 1..Len(views[1].out.inserted)}
             /\ "headers" \notin {views[1].out.inserted[i] : i \in 1..Len(views[1].out.inserted)}
        ELSE /\ views[1].out.args = {"status_line", "headers", "body", "eol"}
             /\ views[1].out.status_line = <<StatusLine(threads[1].result.resp)>>
             /\ views[1].out.inserted[1] = "status_line"

\* Status 304 with body_only in effect: the full output
C9_Witness ==
    /\ views[1].out.args = {"status_line", "headers", "body", "eol"}
    /\ EffectiveBodyOnly(1)
    /\ threads[1].result.resp.status = 304

----------------------------------------------------------------------------
(* C10 *)

\* The scheme a request line asks for: the scheme of its URI, else https
\* when its protocol names HTTPS in any case, else http
SchemeOf(reqline) ==
    LET rl == _read_request_line_dict(reqline)
    IN  IF rl.groups # {} /\ urlparse(rl.uri).scheme # <<>> THEN urlparse(rl.uri).scheme
        ELSE IF "protocol" \in rl.groups /\ Contains(Upper(rl.protocol), <<"H","T","T","P","S">>)
        THEN <<"h","t","t","p","s">>
        ELSE HTTP

\* C10: after parsing, the scheme is the one of the URI, else https when
\* the protocol names HTTPS, else the default http; it is never empty.
C10_SchemeDefaultsToHttp ==
    Parsed(1) =>
        /\ threads[1].self.scheme = SchemeOf(src[1].reqline)
        /\ threads[1].self.scheme # <<>>

====
